---- MODULE Spec2Model ----
(***************************************************************************)
(* A model of package rgf (src/rgf/rgf.go): the bit-packed RGF bitmap, its *)
(* binary codec (Write / Read), and the two image converters ByThreshold   *)
(* and ByDither (Floyd-Steinberg error diffusion).                         *)
(*                                                                         *)
(* Three specifications share the variables:                               *)
(*   Spec         Create, Set, Write, Read                                  *)
(*   SpecConvert  createFromImageSize, ByThreshold, ByDither (whole calls)  *)
(*   SpecDither   ByDither, one loop iteration of floydSteinbergDither per *)
(*                step                                                      *)
(*                                                                         *)
(* Sequences are 1-based: PixelRows[y][b] of the code is PixelRows[y+1][b+1]*)
(* here, grayMap[i] is grayMap[i+1].                                       *)
(***************************************************************************)
EXTENDS Integers, Sequences, FiniteSets, TLC

VARIABLES
    pc,        \* position of the client program
    bmp,       \* the Bitmap under construction / conversion result
    nsets,     \* number of Set calls made so far (model counter)
    lastop,    \* the arguments of the last Set call and the storage before it
    wres,      \* result of Write: the bytes the writer accepted, n, err
    rres,      \* result of Read: bitmap (or nil) and error
    src,       \* the source image handed to a converter
    threshold, \* the threshold handed to ByThreshold
    conv,      \* which converter ran
    grayMap,   \* the working grid of the ditherer (fixed point, see Scale)
    gw, gh,    \* the clipped dimensions w, h used by the ditherer
    pos,       \* index y*w+x of the next cell floydSteinbergDither visits
    gray0,     \* history: the grid as floatGrayMap produced it
    visit      \* history: the residual each cell held when it was visited

vars == <<pc, bmp, nsets, lastop, wres, rres, src, threshold, conv,
          grayMap, gw, gh, pos, gray0, visit>>

---------------------------------------------------------------------------
(* Bounds of the model *)

MaxWidth == 9
MaxHeight == 2
MaxSets == 2
\* the most cells of a source grid the step-wise ditherer is run on
MaxCells == 5

Min(a, b) == IF a < b THEN a ELSE b

Widths == 0..MaxWidth
Heights == 0..MaxHeight
\* Set/Get arguments are uint8: in-range columns of both bytes of a row,
\* the first column past the widest bitmap, and the largest uint8; the first
\* and the last row, the first row past the tallest bitmap, and 255.
XCoords == {0, 7, 8, MaxWidth - 1, MaxWidth, 255}
YCoords == {0, MaxHeight - 1, MaxHeight, 255}

---------------------------------------------------------------------------
(* uint8 bit arithmetic *)

Bit(v, i) == (v \div (2^i)) % 2

RECURSIVE BitsToByte(_, _)
\* the byte whose bit i is f[i], for i in 0..k
BitsToByte(f, k) ==
    IF k < 0 THEN 0 ELSE f[k] * (2^k) + BitsToByte(f, k - 1)

\* a | b on uint8
Or8(a, b) ==
    BitsToByte([i \in 0..7 |-> IF Bit(a, i) = 1 \/ Bit(b, i) = 1 THEN 1 ELSE 0], 7)
\* a & b on uint8
And8(a, b) ==
    BitsToByte([i \in 0..7 |-> IF Bit(a, i) = 1 /\ Bit(b, i) = 1 THEN 1 ELSE 0], 7)
\* a ^ b on uint8
Xor8(a, b) ==
    BitsToByte([i \in 0..7 |-> IF Bit(a, i) # Bit(b, i) THEN 1 ELSE 0], 7)
\* 1 << i as uint8
Shl1(i) == (2^i) % 256

---------------------------------------------------------------------------
(* Bitmap *)

\* stride := (int(bmp.Width) + 7) / 8
Stride(w) == (w + 7) \div 8

Create(Width, Height) ==
    [Width |-> Width, Height |-> Height,
     PixelRows |-> [y \in 1..Height |-> [b \in 1..Stride(Width) |-> 0]]]

Get(img, x, y) ==
    IF x >= img.Width \/ y >= img.Height
    THEN FALSE
    ELSE LET ByteIndex == x \div 8
             BitIndex == x % 8
         IN  And8(img.PixelRows[y + 1][ByteIndex + 1] \div (2^BitIndex), 1) = 1

SetNoClear(img, x, y, black) ==
    IF x >= img.Width \/ y >= img.Height
    THEN img
    ELSE LET ByteIndex == x \div 8
             BitIndex == x % 8
             old == img.PixelRows[y + 1][ByteIndex + 1]
         IN  IF black
             THEN [img EXCEPT !.PixelRows[y + 1][ByteIndex + 1] = Or8(old, Shl1(BitIndex))]
             ELSE img

SetByStorage(img, x, y, black) ==
    IF x >= 8 * Stride(img.Width) \/ y >= img.Height
    THEN img
    ELSE LET ByteIndex == x \div 8
             BitIndex == x % 8
             old == img.PixelRows[y + 1][ByteIndex + 1]
         IN  IF black
             THEN [img EXCEPT !.PixelRows[y + 1][ByteIndex + 1] = Or8(old, Shl1(BitIndex))]
             ELSE [img EXCEPT !.PixelRows[y + 1][ByteIndex + 1] =
                                  And8(old, Xor8(255, Shl1(BitIndex)))]

Set(img, x, y, black) ==
    IF x >= img.Width \/ y >= img.Height
    THEN img
    ELSE LET ByteIndex == x \div 8
             BitIndex == x % 8
             old == img.PixelRows[y + 1][ByteIndex + 1]
         IN  IF black
             THEN [img EXCEPT !.PixelRows[y + 1][ByteIndex + 1] = Or8(old, Shl1(BitIndex))]
             ELSE [img EXCEPT !.PixelRows[y + 1][ByteIndex + 1] =
                                  And8(old, Xor8(255, Shl1(BitIndex)))]

---------------------------------------------------------------------------
(* Codec *)

\* io.Writer as Write uses it: a writer that accepts `room` more bytes.
\* It returns n = len(p) and no error, or n < len(p) and an error.
WriterWrite(room, p) ==
    LET n == Min(Len(p), room)
    IN  [n |-> n, err |-> n < Len(p), taken |-> SubSeq(p, 1, n)]

RECURSIVE WriteRows(_, _, _, _, _)
\* the loop `for _, row := range img.PixelRows` from row index y on
WriteRows(img, y, out, n, limit) ==
    IF y > Len(img.PixelRows)
    THEN [bytes |-> out, n |-> n, err |-> FALSE]
    ELSE LET r == WriterWrite(limit - Len(out), img.PixelRows[y])
         IN  IF r.err
             THEN [bytes |-> out \o r.taken, n |-> n + r.n, err |-> TRUE]
             ELSE WriteRows(img, y + 1, out \o r.taken, n + r.n, limit)

WriteSwapped(img, limit) ==
    LET header == <<img.Height, img.Width>>
        r == WriterWrite(limit, header)
    IN  IF r.err
        THEN [bytes |-> r.taken, n |-> r.n, err |-> TRUE]
        ELSE WriteRows(img, 1, r.taken, r.n, limit)

\* (img *Bitmap) Write(w) on a writer that accepts `limit` bytes in all
Write(img, limit) ==
    LET header == <<img.Width, img.Height>>
        r == WriterWrite(limit, header)
    IN  IF r.err
        THEN [bytes |-> r.taken, n |-> r.n, err |-> TRUE]
        ELSE WriteRows(img, 1, r.taken, r.n, limit)

\* The two in-memory readers of the standard library differ on a read into
\* an empty buffer at the end of the data: bytes.Reader (and strings.Reader)
\* return (0, io.EOF), bytes.Buffer returns (0, nil).  Both are allowed by
\* the io.Reader contract.
ReaderKinds == {"bytes.Reader", "bytes.Buffer"}

\* r.Read(p) with len(p) = len, on data s of which i bytes are consumed
ReaderRead(kind, s, i, len) ==
    IF i >= Len(s)
    THEN IF kind = "bytes.Buffer" /\ len = 0
         THEN [n |-> 0, err |-> "nil"]
         ELSE [n |-> 0, err |-> "EOF"]
    ELSE [n |-> Min(len, Len(s) - i), err |-> "nil"]

NilBitmap == [nil |-> TRUE, bmp |-> Create(0, 0)]

RECURSIVE ReadRows(_, _, _, _, _)
\* the loop `for _, v := range bmp.PixelRows` from row index y on
ReadRows(kind, s, i, img, y) ==
    IF y > Len(img.PixelRows)
    THEN [nil |-> FALSE, bmp |-> img, err |-> "nil"]
    ELSE LET stride == Stride(img.Width)
             r == ReaderRead(kind, s, i, Len(img.PixelRows[y]))
             v == [b \in 1..Len(img.PixelRows[y]) |->
                     IF b <= r.n THEN s[i + b] ELSE img.PixelRows[y][b]]
         IN  IF r.err # "nil"
             THEN NilBitmap @@ [err |-> r.err]
             ELSE IF r.n < stride
                  THEN NilBitmap @@ [err |-> "Bitmap is truncated"]
                  ELSE ReadRows(kind, s, i + r.n, [img EXCEPT !.PixelRows[y] = v], y + 1)

\* Read(r) on a reader of the given kind holding the bytes s
Read(kind, s) ==
    LET r == ReaderRead(kind, s, 0, 2)
    IN  IF r.err # "nil"
        THEN NilBitmap @@ [err |-> r.err]
        ELSE IF r.n # 2
             THEN NilBitmap @@ [err |-> "Bitmap header is truncated"]
             ELSE LET w == s[1]
                      h == s[2]
                  IN  ReadRows(kind, s, 2, Create(w, h), 1)

---------------------------------------------------------------------------
(* Source images and luminance *)

\* A source image: Bounds() = (MinX, MinY)-(MinX + W, MinY + H) and a colour
\* for every point, given either by a pattern over the absolute coordinates
\* or cell by cell (row-major in `cells`).  Colours are opaque 8-bit RGB.
Gray(v) == [R |-> v, G |-> v, B |-> v]
Black == Gray(0)
White == Gray(255)
Palette == <<[R |-> 255, G |-> 0, B |-> 0], Gray(128), White,
             [R |-> 0, G |-> 255, B |-> 0], Gray(127), Black>>

\* src.At(X, Y)
SrcAt(s, X, Y) ==
    IF ~(X >= s.MinX /\ X < s.MinX + s.W /\ Y >= s.MinY /\ Y < s.MinY + s.H)
    THEN [R |-> 0, G |-> 0, B |-> 0]
    ELSE IF s.pat = "cells" THEN s.cells[(Y - s.MinY) * s.W + (X - s.MinX) + 1]
    ELSE IF s.pat = "bw" THEN (IF (X + Y) % 2 = 0 THEN Black ELSE White)
    ELSE Palette[((5 * X + 3 * Y) % 6) + 1]

\* colorToGray(col).Y: color.GrayModel.Convert on the 16-bit channels
\* r = 257 R, ..., y = (19595 r + 38470 g + 7471 b + 1<<15) >> 24, written
\* so that no intermediate value leaves 32 bits.
colorToGray(col) ==
    LET m == 19595 * col.R + 38470 * col.G + 7471 * col.B
    IN  (m + ((m + 32768) \div 256)) \div 65536

createFromImageSizeNoUpper(s) ==
    LET w0 == (s.MinX + s.W) - s.MinX
        h0 == (s.MinY + s.H) - s.MinY
        w == IF w0 < 0 THEN 0 ELSE w0
        h == IF h0 < 0 THEN 0 ELSE h0
    IN  [bmp |-> Create(w % 256, h % 256), w |-> w, h |-> h]

\* createFromImageSize(src): bmp, w, h; uint8(w) is w % 256
createFromImageSize(s) ==
    LET w0 == (s.MinX + s.W) - s.MinX
        h0 == (s.MinY + s.H) - s.MinY
        w == IF w0 < 0 THEN 0 ELSE IF w0 > 255 THEN 255 ELSE w0
        h == IF h0 < 0 THEN 0 ELSE IF h0 > 255 THEN 255 ELSE h0
    IN  [bmp |-> Create(w % 256, h % 256), w |-> w, h |-> h]

---------------------------------------------------------------------------
(* ByThreshold *)

ThresholdBlackLe(lum, t) == lum <= t

\* the flag handed to Set: lum < threshold
ThresholdBlack(lum, t) == lum < t

\* A loop `for i := lo; i < hi; i++` is run as its first half followed by its
\* second half, which keeps the order of the iterations and the depth of the
\* recursion logarithmic.  The test on `first` is always true: it makes the
\* model checker finish the first half before it enters the second.

RECURSIVE ThresholdCols(_, _, _, _, _, _)
\* the inner loop of ByThreshold for x in lo..hi-1, at row y
ThresholdCols(s, t, img, lo, hi, y) ==
    IF lo >= hi THEN img
    ELSE IF hi - lo = 1
         THEN LET x == lo
                  col == SrcAt(s, x + s.MinX, y + s.MinY)
                  lum == colorToGray(col)
              IN  Set(img, x % 256, y % 256, ThresholdBlack(lum, t))
         ELSE LET mid == (lo + hi) \div 2
                  first == ThresholdCols(s, t, img, lo, mid, y)
              IN  IF first.Width >= 0
                  THEN ThresholdCols(s, t, first, mid, hi, y)
                  ELSE first

RECURSIVE ThresholdRows(_, _, _, _, _, _)
\* the outer loop of ByThreshold for y in lo..hi-1
ThresholdRows(s, t, img, w, lo, hi) ==
    IF lo >= hi THEN img
    ELSE IF hi - lo = 1
         THEN ThresholdCols(s, t, img, 0, w, lo)
         ELSE LET mid == (lo + hi) \div 2
                  first == ThresholdRows(s, t, img, w, lo, mid)
              IN  IF first.Width >= 0
                  THEN ThresholdRows(s, t, first, w, mid, hi)
                  ELSE first

ByThreshold(s, t) ==
    LET c == createFromImageSize(s)
    IN  ThresholdRows(s, t, c.bmp, c.w, 0, c.h)

---------------------------------------------------------------------------
(* ByDither *)

\* float64 values of the gray map are kept exactly, as multiples of 1/Scale:
\* the value v is the integer v * Scale.  In a grid of n cells a value has
\* gone through at most n - 1 divisions by 16, and the luminances used are 0,
\* 255 or multiples of 15, so that lum / 255 is a multiple of 1/17: every
\* value of the model is an integer and fits 32 bits.  The rounding of
\* float64 arithmetic is not modelled.
Scale == 17 * 16^(MaxCells - 1)

\* float64(lum) / 255.0, for lum a multiple of 15
LumToFloat(lum) == (lum \div 15) * (Scale \div 17)

\* floatGrayMap(src, w, h): grayMap[y*w+x] = float64(lum) / 255.0
floatGrayMap(s, w, h) ==
    [i \in 1..(w * h) |->
        LET x == (i - 1) % w
            y == (i - 1) \div w
            col == SrcAt(s, x + s.MinX, y + s.MinY)
            lum == colorToGray(col)
        IN  LumToFloat(lum)]

\* g with `d` added to grayMap[i]
AddAt(g, i, d) == [g EXCEPT ![i + 1] = @ + d]

\* new, for the value orig: 1.0 if orig >= 0.5, else 0.0
QuantizeStrict(orig) == IF 2 * orig > Scale THEN Scale ELSE 0

Quantize(orig) == IF 2 * orig >= Scale THEN Scale ELSE 0

\* one iteration of the loop body of floydSteinbergDither at (x, y); the
\* four += statements run in the order of the code, each on the result of
\* the one before
DitherStep(g, w, h, x, y) ==
    LET orig == g[y * w + x + 1]
        new == Quantize(orig)
        g0 == [g EXCEPT ![y * w + x + 1] = new]
        quantError == orig - new
        g1 == IF x # w - 1
              THEN AddAt(g0, (y + 0) * w + x + 1, (quantError * 7) \div 16)
              ELSE g0
        g2 == IF y # h - 1
              THEN AddAt(g1, (y + 1) * w + x - 1, (quantError * 3) \div 16)
              ELSE g1
        g3 == IF y # h - 1
              THEN AddAt(g2, (y + 1) * w + x + 0, (quantError * 5) \div 16)
              ELSE g2
        g4 == IF y # h - 1 /\ x # w - 1
              THEN AddAt(g3, (y + 1) * w + x + 1, (quantError * 1) \div 16)
              ELSE g3
    IN  g4

RECURSIVE DitherRange(_, _, _, _, _)
\* the loops of floydSteinbergDither for the cell indices y*w + x in lo..hi-1
DitherRange(g, w, h, lo, hi) ==
    IF lo >= hi THEN g
    ELSE IF hi - lo = 1
         THEN DitherStep(g, w, h, lo % w, lo \div w)
         ELSE LET mid == (lo + hi) \div 2
                  first == DitherRange(g, w, h, lo, mid)
              IN  IF Len(first) >= 0
                  THEN DitherRange(first, w, h, mid, hi)
                  ELSE first

floydSteinbergDither(g, w, h) == DitherRange(g, w, h, 0, w * h)

RECURSIVE FillRange(_, _, _, _, _)
\* the loops of fillByGrayMap for the cell indices y*w + x in lo..hi-1
FillRange(g, dst, w, lo, hi) ==
    IF lo >= hi THEN dst
    ELSE IF hi - lo = 1
         THEN LET x == lo % w
                  y == lo \div w
                  white == 2 * g[y * w + x + 1] > Scale
              IN  Set(dst, x % 256, y % 256, ~white)
         ELSE LET mid == (lo + hi) \div 2
                  first == FillRange(g, dst, w, lo, mid)
              IN  IF first.Width >= 0
                  THEN FillRange(g, first, w, mid, hi)
                  ELSE first

fillByGrayMap(g, dst, w, h) == FillRange(g, dst, w, 0, w * h)

ByDither(s) ==
    LET c == createFromImageSize(s)
        g == floatGrayMap(s, c.w, c.h)
    IN  fillByGrayMap(floydSteinbergDither(g, c.w, c.h), c.bmp, c.w, c.h)

---------------------------------------------------------------------------
(* Specification Spec: Create, Set, Write, Read *)

NoOp == [x |-> 0, y |-> 0, black |-> FALSE, any |-> FALSE, before |-> Create(0, 0)]
NoWrite == [bytes |-> <<>>, n |-> 0, err |-> FALSE, done |-> FALSE]
NoRead == NilBitmap @@ [err |-> "nil", kind |-> "none"]
NoSrc == [MinX |-> 0, MinY |-> 0, W |-> 0, H |-> 0, pat |-> "none", cells |-> <<>>]

\* the most bytes a bitmap of the model encodes to
StreamMax == 2 + MaxHeight * Stride(MaxWidth)

Idle ==
    /\ src = NoSrc /\ threshold = 0 /\ conv = "none"
    /\ grayMap = <<>> /\ gw = 0 /\ gh = 0 /\ pos = 0
    /\ gray0 = <<>> /\ visit = <<>>

Init ==
    /\ pc = "edit"
    /\ \E w \in Widths, h \in Heights : bmp = Create(w, h)
    /\ nsets = 0
    /\ lastop = NoOp
    /\ wres = NoWrite
    /\ rres = NoRead
    /\ Idle

UnchangedConv == UNCHANGED <<src, threshold, conv, grayMap, gw, gh, pos, gray0, visit>>

SetPixel ==
    /\ pc = "edit"
    /\ nsets < MaxSets
    /\ \E x \in XCoords, y \in YCoords, black \in BOOLEAN :
          /\ bmp' = Set(bmp, x, y, black)
          /\ lastop' = [x |-> x, y |-> y, black |-> black, any |-> TRUE, before |-> bmp]
    /\ nsets' = nsets + 1
    /\ UNCHANGED <<pc, wres, rres>>
    /\ UnchangedConv

WriteBitmap ==
    /\ pc = "edit"
    /\ \E limit \in 0..StreamMax :
          wres' = Write(bmp, limit) @@ [done |-> TRUE]
    /\ pc' = "written"
    /\ UNCHANGED <<bmp, nsets, lastop, rres>>
    /\ UnchangedConv

ReadBitmap ==
    /\ pc = "written"
    /\ \E kind \in ReaderKinds :
          rres' = Read(kind, wres.bytes) @@ [kind |-> kind]
    /\ pc' = "read"
    /\ UNCHANGED <<bmp, nsets, lastop, wres>>
    /\ UnchangedConv

Next == SetPixel \/ WriteBitmap \/ ReadBitmap

Spec == Init /\ [][Next]_vars

---------------------------------------------------------------------------
(* Specification SpecConvert: whole calls of ByThreshold and ByDither *)

\* extents Max - Min of the source bounds: negative, empty, small, exactly
\* the format's limit, and beyond it
Extents == {-3, 0, 1, 2, 255, 300}
ConvDims == {d \in Extents \X Extents : d[1] <= 2 \/ d[2] <= 2}
Origins == {<<0, 0>>, <<5, -2>>}
Thresholds == {0, 76, 128, 255}

\* every origin with every extent pair
ConvSources(pats) ==
    {[MinX |-> o[1], MinY |-> o[2], W |-> d[1], H |-> d[2], pat |-> p, cells |-> <<>>] :
        o \in Origins, d \in ConvDims, p \in pats}

\* a 300 x 10 image
WideSource == [MinX |-> 5, MinY |-> -2, W |-> 300, H |-> 10, pat |-> "rgb", cells |-> <<>>]

NoCodec ==
    /\ nsets = 0 /\ lastop = NoOp /\ wres = NoWrite /\ rres = NoRead

NoDither ==
    /\ grayMap = <<>> /\ gw = 0 /\ gh = 0 /\ pos = 0 /\ gray0 = <<>> /\ visit = <<>>

InitConvert ==
    /\ pc = "src"
    /\ bmp = Create(0, 0)
    /\ \/ /\ conv = "ByThreshold"
          /\ src \in ConvSources({"rgb", "bw"}) \cup {WideSource}
          /\ threshold \in Thresholds
       \/ /\ conv = "ByDither"
          /\ src \in ConvSources({"bw"})
          /\ threshold = 0
    /\ NoCodec
    /\ NoDither

CallByThreshold ==
    /\ pc = "src" /\ conv = "ByThreshold"
    /\ bmp' = ByThreshold(src, threshold)
    /\ pc' = "converted"
    /\ UNCHANGED <<nsets, lastop, wres, rres, src, threshold, conv,
                   grayMap, gw, gh, pos, gray0, visit>>

CallByDither ==
    /\ pc = "src" /\ conv = "ByDither"
    /\ bmp' = ByDither(src)
    /\ pc' = "converted"
    /\ UNCHANGED <<nsets, lastop, wres, rres, src, threshold, conv,
                   grayMap, gw, gh, pos, gray0, visit>>

NextConvert == CallByThreshold \/ CallByDither

SpecConvert == InitConvert /\ [][NextConvert]_vars

---------------------------------------------------------------------------
(* Specification SpecDither: ByDither, one cell of the pass per step *)

\* luminances of the source cells (multiples of 15): 0, 5/17, 8/17 and 1
LumSamples == {0, 75, 120, 255}

\* every grid of at most MaxCells cells, empty ones included
DitherDims == {d \in (0..MaxCells) \X (0..MaxCells) : d[1] * d[2] <= MaxCells}

DitherSources ==
    UNION {
      {[MinX |-> 5, MinY |-> -2, W |-> d[1], H |-> d[2], pat |-> "cells", cells |-> c] :
          c \in [1..(d[1] * d[2]) -> {Gray(v) : v \in LumSamples}]} :
      d \in DitherDims}

InitDither ==
    /\ pc = "src"
    /\ bmp = Create(0, 0)
    /\ conv = "ByDither"
    /\ src \in DitherSources
    /\ threshold = 0
    /\ NoCodec
    /\ NoDither

\* createFromImageSize and floatGrayMap
DitherStart ==
    /\ pc = "src"
    /\ LET c == createFromImageSize(src)
           g == floatGrayMap(src, c.w, c.h)
       IN  /\ bmp' = c.bmp
           /\ gw' = c.w
           /\ gh' = c.h
           /\ grayMap' = g
           /\ gray0' = g
           /\ visit' = [i \in 1..(c.w * c.h) |-> 0]
    /\ pos' = 0
    /\ pc' = "dither"
    /\ UNCHANGED <<nsets, lastop, wres, rres, src, threshold, conv>>

\* one iteration of the loops of floydSteinbergDither
DitherCell ==
    /\ pc = "dither"
    /\ pos < gw * gh
    /\ grayMap' = DitherStep(grayMap, gw, gh, pos % gw, pos \div gw)
    /\ visit' = [visit EXCEPT ![pos + 1] = grayMap[pos + 1]]
    /\ pos' = pos + 1
    /\ UNCHANGED <<pc, bmp, nsets, lastop, wres, rres, src, threshold, conv, gw, gh, gray0>>

\* the loops are over: fillByGrayMap
DitherFill ==
    /\ pc = "dither"
    /\ pos = gw * gh
    /\ bmp' = fillByGrayMap(grayMap, bmp, gw, gh)
    /\ pc' = "done"
    /\ UNCHANGED <<nsets, lastop, wres, rres, src, threshold, conv,
                   grayMap, gw, gh, pos, gray0, visit>>

NextDither == DitherStart \/ DitherCell \/ DitherFill

SpecDither == InitDither /\ [][NextDither]_vars

\* Soundness of the fixed-point representation: whenever a cell is about to
\* be visited and will write to a neighbour, its error is a multiple of 16/Scale,
\* so the divisions by 16 of DitherStep are exact.
FixedPointExact ==
    (pc = "dither" /\ pos < gw * gh /\ pos # gw * gh - 1) =>
        (grayMap[pos + 1] - Quantize(grayMap[pos + 1])) % 16 = 0

---------------------------------------------------------------------------
(* Properties of Spec *)

\* ceil(w / 8), computed without the code's (w + 7) / 8
CeilDiv8(w) == IF w % 8 = 0 THEN w \div 8 ELSE (w \div 8) + 1

InRange(img, x, y) == x < img.Width /\ y < img.Height
Pixels(img) == (0..(img.Width - 1)) \X (0..(img.Height - 1))

\* C1: whenever Write completed without error, Read on a stream holding
\* exactly the bytes written succeeds and returns a bitmap with the same
\* Width and Height and the same Get(x, y) at every in-range pixel, for every
\* width and height, width 0 and height 0 included.
C1_RoundTrip ==
    (pc = "read" /\ ~wres.err) =>
        /\ ~rres.nil
        /\ rres.err = "nil"
        /\ rres.bmp.Width = bmp.Width
        /\ rres.bmp.Height = bmp.Height
        /\ \A p \in Pixels(bmp) : Get(rres.bmp, p[1], p[2]) = Get(bmp, p[1], p[2])

\* C2: a Write that met no writer error emitted exactly
\* 2 + height * ceil(width/8) bytes and returned that count; byte 0 is the
\* width, byte 1 the height, then the rows in order, bit n (from the LSB) of
\* row `row` being 1 iff pixel (n, row) is black.
C2_WriteLayout ==
    (wres.done /\ ~wres.err) =>
        LET st == CeilDiv8(bmp.Width)
        IN  /\ Len(wres.bytes) = 2 + bmp.Height * st
            /\ wres.n = 2 + bmp.Height * st
            /\ wres.bytes[1] = bmp.Width
            /\ wres.bytes[2] = bmp.Height
            /\ \A row \in 0..(bmp.Height - 1) : \A n \in 0..(8 * st - 1) :
                  (Bit(wres.bytes[2 + row * st + (n \div 8) + 1], n % 8) = 1)
                      <=> Get(bmp, n, row)

C2_Witness ==
    /\ wres.done /\ ~wres.err
    /\ bmp.Width = 9 /\ bmp.Height = 2
    /\ Get(bmp, 8, 1) /\ Get(bmp, 0, 0)
    /\ wres.bytes = <<9, 2, 1, 0, 0, 1>>

\* C3: after Set(x, y, b) with (x, y) in range, Get(x, y) returns b and Get
\* of every other in-range pixel is what it was; with (x, y) out of range the
\* storage is unchanged and Get(x, y) returns false.
C3_SetGet ==
    lastop.any =>
        IF InRange(bmp, lastop.x, lastop.y)
        THEN /\ Get(bmp, lastop.x, lastop.y) = lastop.black
             /\ \A p \in Pixels(bmp) :
                   p # <<lastop.x, lastop.y>> =>
                       Get(bmp, p[1], p[2]) = Get(lastop.before, p[1], p[2])
        ELSE /\ bmp.PixelRows = lastop.before.PixelRows
             /\ Get(bmp, lastop.x, lastop.y) = FALSE

C3_Witness ==
    /\ lastop.any
    /\ InRange(bmp, lastop.x, lastop.y)
    /\ ~lastop.black
    /\ Get(lastop.before, lastop.x, lastop.y)
    /\ ~Get(bmp, lastop.x, lastop.y)
    /\ lastop.x = 8

StreamLen == Len(wres.bytes)

\* C4: Read on a stream holding fewer bytes than its header demands fails
\* and returns no bitmap; with fewer than 2 bytes (the empty stream included)
\* the error is the truncated-header error, with the row data cut short it is
\* the truncated-body error.
C4_Truncated ==
    (pc = "read" /\ wres.err) =>
        /\ rres.nil
        /\ rres.err = IF StreamLen < 2 THEN "Bitmap header is truncated"
                                       ELSE "Bitmap is truncated"

\* What Read does on such a stream: it always fails and returns no bitmap,
\* but when the stream is empty, or its data ends exactly at a row boundary,
\* the read that finds no data reports end-of-stream and Read returns that
\* error instead of a truncation error.
ReadOnTruncated ==
    (pc = "read" /\ wres.err) =>
        /\ rres.nil
        /\ rres.err =
             IF StreamLen = 0 THEN "EOF"
             ELSE IF StreamLen = 1 THEN "Bitmap header is truncated"
             ELSE IF (StreamLen - 2) % CeilDiv8(bmp.Width) = 0 THEN "EOF"
             ELSE "Bitmap is truncated"

\* Where the round trip of C1 does hold: the bitmap has no row, or its rows
\* are not empty, or the reader answers a read into an empty buffer at the
\* end of the data with (0, nil).
RoundTripElsewhere ==
    (pc = "read" /\ ~wres.err
        /\ (bmp.Height = 0 \/ bmp.Width > 0 \/ rres.kind = "bytes.Buffer")) =>
        /\ ~rres.nil
        /\ rres.err = "nil"
        /\ rres.bmp.Width = bmp.Width
        /\ rres.bmp.Height = bmp.Height
        /\ \A p \in Pixels(bmp) : Get(rres.bmp, p[1], p[2]) = Get(bmp, p[1], p[2])

\* C7: after Create and any sequence of Set calls the bitmap has exactly
\* Height rows, every row has exactly ceil(Width/8) bytes, and every bit of a
\* row at a position >= Width is 0.
C7_Storage ==
    /\ Len(bmp.PixelRows) = bmp.Height
    /\ \A y \in 1..Len(bmp.PixelRows) :
          /\ Len(bmp.PixelRows[y]) = CeilDiv8(bmp.Width)
          /\ \A n \in bmp.Width..(8 * Len(bmp.PixelRows[y]) - 1) :
                Bit(bmp.PixelRows[y][(n \div 8) + 1], n % 8) = 0

C7_Witness ==
    /\ nsets = MaxSets
    /\ lastop.any /\ lastop.black
    /\ lastop.x >= bmp.Width /\ lastop.x < 8 * CeilDiv8(bmp.Width)
    /\ lastop.y < bmp.Height
    /\ \E p \in Pixels(bmp) : Get(bmp, p[1], p[2])

---------------------------------------------------------------------------
(* Properties of SpecConvert *)

\* the 8-bit luminance of the source pixel that output pixel (x, y) samples
LumAt(x, y) == colorToGray(SrcAt(src, src.MinX + x, src.MinY + y))

ClampDim(e) == IF e < 0 THEN 0 ELSE IF e > 255 THEN 255 ELSE e

BlackSet(img) == {p \in Pixels(img) : Get(img, p[1], p[2])}

\* C5: after ByThreshold, output pixel (x, y) is black iff the luminance of
\* source pixel (x, y) is strictly less than the threshold; threshold 0 gives
\* no black pixel, and the black pixels for threshold t are among the black
\* pixels for every threshold t2 >= t (compared on the small sources).
C5_Threshold ==
    (pc = "converted" /\ conv = "ByThreshold") =>
        /\ \A p \in Pixels(bmp) : Get(bmp, p[1], p[2]) <=> (LumAt(p[1], p[2]) < threshold)
        /\ threshold = 0 => BlackSet(bmp) = {}
        /\ (src.W <= 2 /\ src.H <= 2) =>
              \A t2 \in Thresholds :
                  t2 >= threshold => BlackSet(bmp) \subseteq BlackSet(ByThreshold(src, t2))

C5_Witness ==
    /\ pc = "converted" /\ conv = "ByThreshold"
    /\ threshold = 128
    /\ \E p \in Pixels(bmp) : LumAt(p[1], p[2]) = 127 /\ Get(bmp, p[1], p[2])
    /\ \E p \in Pixels(bmp) : LumAt(p[1], p[2]) = 128 /\ ~Get(bmp, p[1], p[2])

---------------------------------------------------------------------------
(* Properties of SpecDither *)

CellX(i) == (i - 1) % gw
CellY(i) == (i - 1) \div gw
Inside(x, y) == x >= 0 /\ x < gw /\ y >= 0 /\ y < gh

\* the grid after the step at (x, y) as the design describes it: the
\* quantized value at (x, y), the four weighted shares added to the
\* neighbours that lie inside the grid, every other cell as it was
DesignStep(g, x, y) ==
    LET orig == g[y * gw + x + 1]
        new == IF 2 * orig >= Scale THEN Scale ELSE 0
        e == orig - new
    IN  [i \in 1..Len(g) |->
            LET cx == CellX(i)
                cy == CellY(i)
            IN  IF cx = x /\ cy = y THEN new
                ELSE IF cx = x + 1 /\ cy = y THEN g[i] + (e * 7) \div 16
                ELSE IF cx = x - 1 /\ cy = y + 1 THEN g[i] + (e * 3) \div 16
                ELSE IF cx = x /\ cy = y + 1 THEN g[i] + (e * 5) \div 16
                ELSE IF cx = x + 1 /\ cy = y + 1 THEN g[i] + (e * 1) \div 16
                ELSE g[i]]

\* C8: every step of the pass writes the quantized value to its cell, adds
\* the shares 7/16, 3/16, 5/16, 1/16 of the error to the east, southwest,
\* south and southeast neighbours that lie inside the grid and changes nothing
\* else (no southwest write at x = 0, no write to a visited cell), so after
\* the pass every cell holds exactly 0.0 or 1.0.
C8_StepFrame ==
    /\ [][(pc = "dither" /\ pos' = pos + 1) =>
             grayMap' = DesignStep(grayMap, pos % gw, pos \div gw)]_vars
    /\ [](pc = "done" => \A i \in 1..Len(grayMap) : grayMap[i] \in {0, Scale})

\* C9: the output pixel of ByDither is white iff the residual its cell held
\* when it was visited was >= 0.5 (exactly 0.5 goes to white), black
\* otherwise: the final `> 0.5` test agrees with the decision taken at
\* quantization.
C9_Decision ==
    pc = "done" =>
        \A i \in 1..(gw * gh) :
            (~Get(bmp, CellX(i), CellY(i))) <=> (2 * visit[i] >= Scale)

C9_Witness ==
    /\ pc = "done"
    /\ \E i \in 1..(gw * gh) :
          /\ 2 * visit[i] = Scale
          /\ ~Get(bmp, CellX(i), CellY(i))
    /\ \E i \in 1..(gw * gh) : Get(bmp, CellX(i), CellY(i))

RECURSIVE SumTo(_, _)
\* f[1] + ... + f[n]
SumTo(f, n) == IF n = 0 THEN 0 ELSE f[n] + SumTo(f, n - 1)

\* the sixteenths of a cell's error whose neighbour lies outside the grid
OutsideWeight(x, y) ==
      (IF Inside(x + 1, y) THEN 0 ELSE 7)
    + (IF Inside(x - 1, y + 1) THEN 0 ELSE 3)
    + (IF Inside(x, y + 1) THEN 0 ELSE 5)
    + (IF Inside(x + 1, y + 1) THEN 0 ELSE 1)

\* The first half of C10, which is true of the code: a step at a cell whose
\* east, southwest, south and southeast neighbours all lie inside the grid
\* leaves the sum of the working grid unchanged.  (Such a cell needs a grid of
\* at least 3 x 2 cells.)
StepKeepsSum ==
    [][(pc = "dither" /\ pos' = pos + 1
          /\ Inside((pos % gw) + 1, pos \div gw)
          /\ Inside((pos % gw) - 1, (pos \div gw) + 1)
          /\ Inside((pos % gw) + 1, (pos \div gw) + 1)) =>
             SumTo(grayMap', gw * gh) = SumTo(grayMap, gw * gh)]_vars

\* C10: over the full pass the sum of the quantized values differs from the
\* sum of the original values only by the error shares of the neighbours that
\* lie outside the grid:
\*   sum(quantized) = sum(original) - sum_c error(c) * OutsideWeight(c) / 16
C10_Conservation ==
    pc = "done" =>
        LET n == gw * gh
            quant == [i \in 1..n |-> Quantize(visit[i])]
            dropped == [i \in 1..n |->
                          (visit[i] - quant[i]) * OutsideWeight(CellX(i), CellY(i))]
        IN  16 * (SumTo(quant, n) - SumTo(gray0, n)) + SumTo(dropped, n) = 0

====
